---- MODULE Spec2Model ----
(***************************************************************************)
(* METRI Meeting Assistant: the WebSocket live-transcription pipeline of   *)
(* the backend server (connection registry, Session Buffers, control       *)
(* messages, per-chunk processing, Whisper language normalisation and the  *)
(* fallback demo generator), and the session logic of the browser client  *)
(* (App.jsx: startSession, stopSession, handleServerMessage).              *)
(*                                                                         *)
(* JavaScript strings are sequences of UTF-16 code units (integers), so    *)
(* that trim, toLowerCase, includes and the Khmer-block test are computed  *)
(* as the code computes them.  JavaScript values that reach the code from  *)
(* the wire (mimeType, response.text, response.language) are tagged        *)
(* records, because JSON lets a client send a number where the code        *)
(* expects a string.  Date.now() stamps are left out of the messages.      *)
(***************************************************************************)
EXTENDS Integers, Sequences, FiniteSets, TLC

(* ------------------------------ bounds --------------------------------- *)
\* connections accepted plus text frames plus live-mode binary frames received
MaxEvents == 4
\* binary frames received in fallback mode
MaxDemoFrames == 7

(* ------------------------- JavaScript values --------------------------- *)
Str(s) == [t |-> "string", s |-> s, n |-> 0]
Num(n) == [t |-> "number", s |-> <<>>, n |-> n]
Undef == [t |-> "undefined", s |-> <<>>, n |-> 0]

\* ToBoolean: undefined, "" and 0 are falsy
Truthy(v) ==
  CASE v.t = "string" -> v.s # <<>>
    [] v.t = "number" -> v.n # 0
    [] OTHER -> FALSE

\* a || b
OrElse(a, b) == IF Truthy(a) THEN a ELSE b

\* String.prototype.includes
Includes(s, sub) ==
  \E i \in 1..(Len(s) - Len(sub) + 1) : SubSeq(s, i, i + Len(sub) - 1) = sub

\* String.prototype.toLowerCase on the ASCII letters
ToLowerCase(s) ==
  [i \in 1..Len(s) |-> IF s[i] >= 65 /\ s[i] <= 90 THEN s[i] + 32 ELSE s[i]]

\* the code units String.prototype.trim strips
WhiteSpace ==
  {9, 10, 11, 12, 13, 32, 160, 5760, 8232, 8233, 8239, 8287, 12288, 65279}
    \cup (8192..8202)

RECURSIVE TrimStart(_)
TrimStart(s) ==
  IF s # <<>> /\ Head(s) \in WhiteSpace THEN TrimStart(Tail(s)) ELSE s

RECURSIVE TrimEnd(_)
TrimEnd(s) ==
  IF s # <<>> /\ s[Len(s)] \in WhiteSpace
    THEN TrimEnd(SubSeq(s, 1, Len(s) - 1))
    ELSE s

Trim(s) == TrimEnd(TrimStart(s))

(* --------------------------- string literals --------------------------- *)
AudioWebm == <<97,117,100,105,111,47,119,101,98,109>>    \* "audio/webm"
AudioOgg == <<97,117,100,105,111,47,111,103,103>>        \* "audio/ogg"
LangKm == <<107,109>>                                    \* "km"
LangEn == <<101,110>>                                    \* "en"
Khmer == <<107,104,109,101,114>>                         \* "khmer"

(* ------------------- Whisper transcription service --------------------- *)
\* /[ក-៿]/.test(text)
HasKhmerChars(text) == \E i \in 1..Len(text) : text[i] >= 6016 /\ text[i] <= 6143

\* mutant: the reported language is trusted before the text is looked at
normalizeLanguageTrustsWhisper(whisperLang, text) ==
  LET lower == ToLowerCase(OrElse(whisperLang, Str(<<>>)).s)
  IN  IF Includes(lower, Khmer) \/ lower = LangKm THEN LangKm
      ELSE IF lower # << >> THEN LangEn
      ELSE IF HasKhmerChars(text) THEN LangKm ELSE LangEn

\* mutant: the reported language is compared without lower-casing it
normalizeLanguageCaseSensitive(whisperLang, text) ==
  IF HasKhmerChars(text) THEN LangKm
  ELSE LET name == OrElse(whisperLang, Str(<<>>)).s
       IN  IF Includes(name, Khmer) \/ name = LangKm THEN LangKm ELSE LangEn

normalizeLanguage(whisperLang, text) ==
  IF HasKhmerChars(text) THEN LangKm
  ELSE LET lower == ToLowerCase(OrElse(whisperLang, Str(<<>>)).s)
       IN  IF Includes(lower, Khmer) \/ lower = LangKm THEN LangKm ELSE LangEn

\* What the awaited openai.audio.transcriptions.create call can do: reject,
\* or resolve with a response whose text and language are strings or missing.
Response(ok, text, language) == [ok |-> ok, text |-> text, language |-> language]
Failure == Response(FALSE, Undef, Undef)

\* transcribeAudio after the await: { text, lang } (duration is not used by
\* the WebSocket pipeline); a rejected call is rethrown to the caller.
transcribeAudio(response) ==
  LET text == IF response.text.t = "string" /\ Trim(response.text.s) # <<>>
                THEN Trim(response.text.s)
                ELSE <<>>
      langCode == OrElse(response.language, Str(LangEn))
  IN  [text |-> text, lang |-> normalizeLanguage(langCode, text)]

guessExtension(mimeType) ==
  LET m == mimeType.s
  IN  IF Includes(m, <<119,101,98,109>>) THEN <<46,119,101,98,109>>
      ELSE IF Includes(m, <<111,103,103>>) THEN <<46,111,103,103>>
      ELSE IF Includes(m, <<109,112,52>>) THEN <<46,109,112,52>>
      ELSE IF Includes(m, <<119,97,118>>) THEN <<46,119,97,118>>
      ELSE IF Includes(m, <<109,112,101,103>>) \/ Includes(m, <<109,112,51>>)
        THEN <<46,109,112,51>>
      ELSE <<46,119,101,98,109>>

\* mimeType.includes is not a function unless mimeType is a string (an Array
\* also has includes; arrays are not among the modelled inputs): TypeError
guessExtensionThrows(mimeType) == mimeType.t # "string"

(* ------------------------- fallback generator -------------------------- *)
Phrase(text, lang) == [text |-> text, lang |-> lang]

DEMO_PHRASES ==
  << Phrase(<<71,111,111,100,32,109,111,114,110,105,110,103,32,101,118,101,114,121,111,110,101,44,32,108,101,116,39,115,32,98,101,103,105,110,32,116,111,100,97,121,39,115,32,97,103,101,110,100,97,46>>, LangEn),
     Phrase(<<6047,6077,6047,6098,6031,6072,6033,6070,6086,6020,6050,6047,6091,6018,6098,6035,6070,33,32,6017,6098,6025,6075,6086,6042,6072,6016,6042,6070,6041,6026,6082,6043,6036,6070,6035,6021,6076,6043,6042,6077,6040,6100>>, LangKm),
     Phrase(<<67,97,110,32,121,111,117,32,115,104,97,114,101,32,116,104,101,32,81,51,32,114,101,112,111,114,116,32,111,110,32,115,99,114,101,101,110,32,112,108,101,97,115,101,63>>, LangEn),
     Phrase(<<6041,6078,6020,6031,6098,6042,6076,6044,6038,6071,6039,6070,6016,6098,6047,6070,6050,6086,6038,6072,6037,6082,6035,6016,6070,6042,6050,6039,6071,6044,6028,6098,6029,6035,6093,6100>>, LangKm),
     Phrase(<<84,104,101,32,109,97,114,107,101,116,105,110,103,32,116,101,97,109,32,101,120,99,101,101,100,101,100,32,116,104,101,105,114,32,116,97,114,103,101,116,115,32,116,104,105,115,32,113,117,97,114,116,101,114,46>>, LangEn),
     Phrase(<<6017,6098,6025,6075,6086,6041,6043,6091,6038,6098,6042,6040,6023,6070,6040,6077,6041,6016,6070,6042,6047,6098,6035,6078,6049,6078,6020,6042,6036,6047,6091,6050,6098,6035,6016,6100>>, LangKm) >>

\* mutant: ++demoIdx instead of demoIdx++
mockTranscriptPreIncrement(idx) == DEMO_PHRASES[((idx + 1) % Len(DEMO_PHRASES)) + 1]

\* DEMO_PHRASES[demoIdx++ % DEMO_PHRASES.length]: the phrase returned for the
\* counter value idx (JavaScript indexes from 0, TLA+ from 1)
mockTranscript(idx) == DEMO_PHRASES[(idx % Len(DEMO_PHRASES)) + 1]

\* the counter after demoIdx++
demoIdxNext(idx) == idx + 1

(* ------------------------------- state --------------------------------- *)
VARIABLES
  apiKey,        \* process.env.OPENAI_API_KEY is set (fixed at process start)
  clients,       \* const clients = new Map(): the clientIds it holds
  readyState,    \* ws.readyState of every socket accepted so far, by clientId
  audioBuffers,  \* const audioBuffers = new Map(): clientId -> Session Buffer
  demoIdx,       \* let demoIdx = 0
  files,         \* the chunk files that exist under UPLOADS_DIR
  chunks,        \* the handleAudioChunk invocations suspended at their await
  unlinkFailed,  \* history: the chunk files whose fs.unlinkSync threw
  ctl,           \* history: the audio_start / audio_end types handled per client
  nEvents,       \* history: connections accepted and frames received (see MaxEvents)
  nFrames,       \* history: binary frames handled
  lastEvent,     \* history: the event whose handler ran last
  outbox,        \* history: the payloads that handler passed to ws.send
  \* the browser client (App.jsx)
  isActive,      \* const [isActive, setIsActive] = useState(false)
  status,        \* const [status, setStatus] = useState("idle")
  transcripts,   \* const [transcripts, setTx] = useState([])
  sessionRef,    \* sessionRef.current
  wsRef,         \* wsRef.current: null, or the session's WebSocket
  mediaRecRef,   \* mediaRecRef.current: null, or the session's MediaRecorder
  toast,         \* the type of the toast last raised by toast$
  starting,      \* the await a startSession invocation is suspended at
  lastMsg,       \* history: the frame ws.onmessage handled in the last step
  \* the JSON store (db.js) behind the REST routes
  dbUsers,       \* _db.users
  dbSessions,    \* _db.sessions
  dbEntries,     \* _db.entries
  signups,       \* the signup requests suspended at their bcrypt awaits
  nSignups,      \* history: signup requests received (see MaxSignups)
  nSaves,        \* history: POST /api/sessions requests received (see MaxSaves)
  lastStore      \* history: the request handled last and its answer

serverVars ==
  << apiKey, clients, readyState, audioBuffers, demoIdx, files, chunks,
     unlinkFailed, ctl, nEvents, nFrames, lastEvent, outbox >>

clientVars ==
  << isActive, status, transcripts, sessionRef, wsRef, mediaRecRef, toast,
     starting, lastMsg >>

storeVars ==
  << dbUsers, dbSessions, dbEntries, signups, nSignups, nSaves, lastStore >>

vars == << serverVars, clientVars, storeVars >>

ClientIds == 1..Len(readyState)

(* ------------------------------ messages ------------------------------- *)
\* a parsed text frame: JSON.parse throws, yields null, or yields an object
Msg(parse, type, mimeType) == [parse |-> parse, type |-> type, mimeType |-> mimeType]
NoMsg == Msg("none", "undefined", Undef)

TextInputs ==
  { Msg("throws", "undefined", Undef),
    Msg("null", "undefined", Undef),
    Msg("object", "ping", Undef),
    Msg("object", "audio_start", Undef),
    Msg("object", "audio_start", Str(<<>>)),
    Msg("object", "audio_start", Str(AudioOgg)),
    Msg("object", "audio_start", Num(42)),
    Msg("object", "chunk_meta", Undef),
    Msg("object", "audio_end", Undef) }

\* a frame as the client's ws.onmessage sees it: JSON.parse throws or yields
\* an object
ServerMsg(parse, type, text, lang) ==
  [parse |-> parse, type |-> type, text |-> text, lang |-> lang]
NoServerMsg == ServerMsg("none", "undefined", Undef, Undef)

\* an outbound payload (JSON.stringify of the object literal)
Payload(type, text, lang, message) ==
  [type |-> type, text |-> text, lang |-> lang, message |-> message]

Plain(type) == Payload(type, <<>>, <<>>, "")
ErrorMsg(message) == Payload("error", <<>>, <<>>, message)
Transcript(text, lang) == Payload("transcript", text, lang, "")

\* mutant: send does not look at ws.readyState
sendUnguarded(rs, c, payload) ==
  << [to |-> c, type |-> payload.type, text |-> payload.text,
      lang |-> payload.lang, message |-> payload.message] >>

\* function send(ws, payload): a no-op unless the socket is OPEN
send(rs, c, payload) ==
  IF rs[c] = "OPEN"
    THEN << [to |-> c, type |-> payload.type, text |-> payload.text,
             lang |-> payload.lang, message |-> payload.message] >>
    ELSE << >>

(* --------------------------- Session Buffers --------------------------- *)
Buffer(mimeType, pendingMeta) == [mimeType |-> mimeType, pendingMeta |-> pendingMeta]
NoBuffer == Buffer(Undef, NoMsg)

BufferOf(bufs, c) == IF c \in DOMAIN bufs THEN bufs[c] ELSE NoBuffer

\* mutant: audio_start updates the buffer it finds instead of replacing it
audioStartMerges(bufs, c, msg) ==
  [x \in DOMAIN bufs \cup {c} |->
     IF x = c
       THEN Buffer(OrElse(msg.mimeType, Str(AudioWebm)), BufferOf(bufs, c).pendingMeta)
       ELSE bufs[x]]

\* audioBuffers.set(clientId, { chunks: [], mimeType: msg.mimeType || "audio/webm" })
audioStart(bufs, c, msg) ==
  [x \in DOMAIN bufs \cup {c} |->
     IF x = c THEN Buffer(OrElse(msg.mimeType, Str(AudioWebm)), NoMsg) ELSE bufs[x]]

\* mutant: chunk_meta replaces the buffer and loses its mimeType
chunkMetaReplaces(bufs, c, msg) ==
  IF c \in DOMAIN bufs
    THEN [bufs EXCEPT ![c] = Buffer(Undef, msg)]
    ELSE bufs

\* mutant: chunk_meta opens a buffer when the connection has none
chunkMetaCreates(bufs, c, msg) ==
  [x \in DOMAIN bufs \cup {c} |->
     IF x = c THEN Buffer(BufferOf(bufs, c).mimeType, msg) ELSE bufs[x]]

\* if (audioBuffers.has(clientId)) audioBuffers.get(clientId).pendingMeta = msg
chunkMeta(bufs, c, msg) ==
  IF c \in DOMAIN bufs
    THEN [bufs EXCEPT ![c] = Buffer(bufs[c].mimeType, msg)]
    ELSE bufs

\* mutant: audio_end leaves the buffer in the registry
audioEndKeeps(bufs, c) == bufs

\* mutant: audio_end empties the whole registry (audioBuffers.clear())
audioEndClearsAll(bufs, c) == << >>

\* audioBuffers.delete(clientId)
audioEnd(bufs, c) == [x \in DOMAIN bufs \ {c} |-> bufs[x]]

\* handleMessage: the registry after the switch
handleMessageBuffers(bufs, c, msg) ==
  CASE msg.type = "audio_start" -> audioStart(bufs, c, msg)
    [] msg.type = "chunk_meta" -> chunkMeta(bufs, c, msg)
    [] msg.type = "audio_end" -> audioEnd(bufs, c)
    [] OTHER -> bufs

\* mutant: the switch has no default branch
handleMessageSendsNoDefault(rs, c, msg) ==
  CASE msg.type = "audio_start" -> send(rs, c, Plain("audio_start_ack"))
    [] OTHER -> << >>

\* handleMessage: what the switch sends
handleMessageSends(rs, c, msg) ==
  CASE msg.type = "audio_start" -> send(rs, c, Plain("audio_start_ack"))
    [] msg.type = "chunk_meta" -> << >>
    [] msg.type = "audio_end" -> << >>
    [] OTHER -> send(rs, c, ErrorMsg("Unknown message type"))

\* mutant: bufInfo?.mimeType without the || "audio/webm" default
resolveMimeTypeNoDefault(bufs, c) ==
  IF c \in DOMAIN bufs THEN bufs[c].mimeType ELSE Undef

\* const mimeType = bufInfo?.mimeType || "audio/webm"
resolveMimeType(bufs, c) ==
  IF c \in DOMAIN bufs THEN OrElse(bufs[c].mimeType, Str(AudioWebm)) ELSE Str(AudioWebm)

(* ------------------------------- chunks -------------------------------- *)
\* a handleAudioChunk invocation suspended at await transcribeAudio(...): its
\* ws / clientId, its tempPath, its mimeType, whether its bufInfo is a Session
\* Buffer (not undefined) and, as history, the types it has sent
Chunk(client, tempPath, emitted, mimeType, hadBuffer) ==
  [client |-> client, tempPath |-> tempPath, emitted |-> emitted,
   mimeType |-> mimeType, hadBuffer |-> hadBuffer]

NoPath == << 0, << >> >>

\* mutant: the file name is made from the extension alone
tempPathOfFixed(k, ext) == << 1, ext >>

\* path.join(UPLOADS_DIR, `${uuid()}${ext}`): uuid() never repeats; the name
\* made for the k-th binary frame carries k
tempPathOf(k, ext) == << k, ext >>

\* fs.writeFileSync: succeeds, fails before the file exists, or fails after
\* creating it (a partial file)
WriteOutcomes == {"ok", "failed", "partial"}
\* fs.unlinkSync: succeeds or throws
UnlinkOutcomes == {"ok", "failed"}

afterWrite(fs, path, w) == IF w = "failed" THEN fs ELSE fs \cup {path}

\* mutant: no finally block, the file is never removed
cleanupMissing(fs, path, u) == fs

\* finally { try { if (fs.existsSync(tempPath)) fs.unlinkSync(tempPath); } catch (_) { } }
cleanup(fs, path, u) == IF path \in fs /\ u = "ok" THEN fs \ {path} ELSE fs

\* the files whose removal was tried and threw
cleanupFailed(fs, path, u) == IF path \in fs /\ u = "failed" THEN {path} ELSE {}

Types(msgs) == [i \in 1..Len(msgs) |-> msgs[i].type]

\* mutant: the catch block does not report a failed write
writeSendsSwallowsFailure(rs, c, w) ==
  IF w = "ok" THEN send(rs, c, Plain("processing")) ELSE << >>

\* handleAudioChunk before the await, live mode: the try block's sends when
\* writeFileSync returns, the catch block's when it throws
writeSends(rs, c, w) ==
  IF w = "ok"
    THEN send(rs, c, Plain("processing"))
    ELSE send(rs, c, ErrorMsg("Transcription failed. Check your API key."))

\* mutant: the catch block swallows the failure without reporting it
resultSendsSwallowsFailure(rs, c, response) ==
  IF response.ok
    THEN LET result == transcribeAudio(response)
         IN  IF result.text # << >>
               THEN send(rs, c, Transcript(result.text, result.lang))
               ELSE send(rs, c, Plain("silence"))
    ELSE << >>

\* mutant: a transcript is sent whatever the text
resultSendsEmptyTranscript(rs, c, response) ==
  IF response.ok
    THEN LET result == transcribeAudio(response)
         IN  send(rs, c, Transcript(result.text, result.lang))
    ELSE send(rs, c, ErrorMsg("Transcription failed. Check your API key."))

\* handleAudioChunk after the await: the result branch, or the catch block
resultSends(rs, c, response) ==
  IF response.ok
    THEN LET result == transcribeAudio(response)
         IN  IF result.text # << >>
               THEN send(rs, c, Transcript(result.text, result.lang))
               ELSE send(rs, c, Plain("silence"))
    ELSE send(rs, c, ErrorMsg("Transcription failed. Check your API key."))

\* mutant: the processing status is sent before the API key is looked at
demoSendsProcessing(rs, c, idx) ==
  LET phrase == mockTranscript(idx)
  IN  send(rs, c, Plain("processing"))
        \o send(rs, c, Transcript(phrase.text, phrase.lang))

\* handleAudioChunk in fallback mode
demoSends(rs, c, idx) ==
  LET phrase == mockTranscript(idx)
  IN  send(rs, c, Transcript(phrase.text, phrase.lang))

(* ------------------------------- events -------------------------------- *)
\* The event handled last: its kind and connection and what the handler
\* worked on.  For a text frame: the parsed message and the Session Buffer
\* found.  For a binary frame or a settled transcription call: the frame's
\* ordinal, the mime type resolved for it when it arrived and whether a
\* Session Buffer was found then, the call's response, how the
\* invocation stands afterwards (suspended at the await, returned, or threw
\* out of handleAudioChunk), every type sent for the frame so far, its temp
\* path and what its unlink did, and the value transcribeAudio returned.
Event(kind, client, msg, before, frame, mimeType, hadBuffer, response, result, outcome, emitted, tempPath, unlink) ==
  [kind |-> kind, client |-> client, msg |-> msg, before |-> before,
   frame |-> frame, mimeType |-> mimeType, hadBuffer |-> hadBuffer,
   response |-> response,
   result |-> result, outcome |-> outcome, emitted |-> emitted,
   tempPath |-> tempPath, unlink |-> unlink]

NoResult == [text |-> << >>, lang |-> << >>]

Quiet(kind, client) ==
  Event(kind, client, NoMsg, NoBuffer, 0, Undef, FALSE, Failure, NoResult,
        "none", << >>, NoPath, "none")

TextEvent(c, msg, before) ==
  Event("text", c, msg, before, 0, Undef, FALSE, Failure, NoResult, "none",
        << >>, NoPath, "none")

ChunkEvent(kind, c, frame, mimeType, hadBuffer, response, outcome, emitted, tempPath, unlink) ==
  Event(kind, c, NoMsg, NoBuffer, frame, mimeType, hadBuffer, response,
        IF response.ok THEN transcribeAudio(response) ELSE NoResult,
        outcome, emitted, tempPath, unlink)

unlinkResult(fs, path, u) == IF path \in fs THEN u ELSE "none"

\* the App component after its first render
ClientInit ==
  /\ isActive = FALSE
  /\ status = "idle"
  /\ transcripts = << >>
  /\ sessionRef = << >>
  /\ wsRef = "null"
  /\ mediaRecRef = "null"
  /\ toast = "none"
  /\ starting = "none"
  /\ lastMsg = NoServerMsg

\* a request handled by a REST route and its answer: the route, the username
\* signed up, the user of the token (or the user created), the session id,
\* the HTTP status (0 while the request waits) and whether the store method
\* returned normally with a true value
StoreEvent(op, username, user, id, httpStatus, result) ==
  [op |-> op, username |-> username, user |-> user, id |-> id,
   httpStatus |-> httpStatus, result |-> result]

\* loadDB() with no database file: { users: [], sessions: [], entries: [] }
StoreInit ==
  /\ dbUsers = << >>
  /\ dbSessions = << >>
  /\ dbEntries = << >>
  /\ signups = << >>
  /\ nSignups = 0
  /\ nSaves = 0
  /\ lastStore = StoreEvent("none", << >>, 0, 0, 0, FALSE)

\* the WebSocket gateway after module load
GatewayInit ==
  /\ apiKey \in BOOLEAN
  /\ clients = {}
  /\ readyState = << >>
  /\ audioBuffers = << >>
  /\ demoIdx = 0
  /\ files = {}
  /\ chunks = << >>
  /\ unlinkFailed = {}
  /\ ctl = << >>
  /\ nEvents = 0
  /\ nFrames = 0
  /\ lastEvent = Quiet("start", 0)
  /\ outbox = << >>

Init ==
  /\ GatewayInit
  /\ ClientInit
  /\ StoreInit

\* clients.set(clientId, { ws, connectedAt: Date.now() })
clientsSet(cl, c) == cl \cup {c}

\* mutant: the close handler leaves the registry entry behind
clientsDeleteKeeps(cl, c) == cl

\* clients.delete(clientId), in the close and in the error handler
clientsDelete(cl, c) == cl \ {c}

\* mutant: a frame is taken only when no invocation is suspended
listensWhenIdle(ch, c) == ch = << >>

\* ws.on("message", async ...): the listener is called for every frame of an
\* open socket; no invocation still suspended at its await holds it back
listens(ch, c) == TRUE

\* mutant: the calls of one connection settle in the order they were made
settlesInArrivalOrder(ch, f) ==
  /\ f \in DOMAIN ch
  /\ \A g \in DOMAIN ch : ch[g].client = ch[f].client => f <= g

\* await transcribeAudio(...): a suspended invocation resumes when its own
\* call settles, whatever other invocations are suspended
settles(ch, f) == f \in DOMAIN ch

\* wss.on("connection")
Connect ==
  /\ UNCHANGED << clientVars, storeVars >>
  /\ nEvents < MaxEvents
  /\ nEvents' = nEvents + 1
  /\ LET clientId == Len(readyState) + 1
     IN  /\ clients' = clientsSet(clients, clientId)
         /\ readyState' = Append(readyState, "OPEN")
         /\ ctl' = Append(ctl, << >>)
         /\ outbox' = send(readyState', clientId, Plain("connected"))
         /\ lastEvent' = Quiet("connection", clientId)
  /\ UNCHANGED << apiKey, audioBuffers, demoIdx, files, chunks, unlinkFailed, nFrames >>

\* ws.on("message") with isBinary false
RecvText(c, msg) ==
  /\ UNCHANGED << clientVars, storeVars >>
  /\ c \in ClientIds
  /\ readyState[c] = "OPEN"
  /\ listens(chunks, c)
  /\ nEvents < MaxEvents
  /\ nEvents' = nEvents + 1
  /\ lastEvent' = TextEvent(c, msg, BufferOf(audioBuffers, c))
  /\ IF msg.parse = "object"
       THEN /\ audioBuffers' = handleMessageBuffers(audioBuffers, c, msg)
            /\ outbox' = handleMessageSends(readyState, c, msg)
            /\ ctl' = IF msg.type \in {"audio_start", "audio_end"}
                        THEN [ctl EXCEPT ![c] = Append(@, msg.type)]
                        ELSE ctl
       ELSE \* JSON.parse threw, or msg.type threw on null: the catch
            /\ outbox' = send(readyState, c, ErrorMsg("Invalid message format"))
            /\ UNCHANGED << audioBuffers, ctl >>
  /\ UNCHANGED << apiKey, clients, readyState, demoIdx, files, chunks, unlinkFailed, nFrames >>

\* ws.on("message") with isBinary true, fallback mode: handleAudioChunk
\* returns before its first await
RecvBinaryDemo(c) ==
  /\ UNCHANGED << clientVars, storeVars >>
  /\ c \in ClientIds
  /\ readyState[c] = "OPEN"
  /\ listens(chunks, c)
  /\ ~apiKey
  /\ nFrames < MaxDemoFrames
  /\ nFrames' = nFrames + 1
  /\ outbox' = demoSends(readyState, c, demoIdx)
  /\ demoIdx' = demoIdxNext(demoIdx)
  /\ lastEvent' = ChunkEvent("binary", c, nFrames + 1, resolveMimeType(audioBuffers, c),
                             c \in DOMAIN audioBuffers, Failure, "returned", Types(outbox'), NoPath, "none")
  /\ UNCHANGED << apiKey, clients, readyState, audioBuffers, files, chunks,
                  unlinkFailed, ctl, nEvents >>

\* ws.on("message") with isBinary true, live mode: handleAudioChunk up to
\* its await, or to its end when it does not reach the await
RecvBinaryLive(c, w, u) ==
  /\ UNCHANGED << clientVars, storeVars >>
  /\ c \in ClientIds
  /\ readyState[c] = "OPEN"
  /\ listens(chunks, c)
  /\ apiKey
  /\ nEvents < MaxEvents
  /\ nEvents' = nEvents + 1
  /\ nFrames' = nFrames + 1
  /\ LET frame == nFrames + 1
         mimeType == resolveMimeType(audioBuffers, c)
         hadBuffer == c \in DOMAIN audioBuffers
         tempPath == tempPathOf(frame, guessExtension(mimeType))
         written == afterWrite(files, tempPath, w)
     IN  IF guessExtensionThrows(mimeType)
           THEN \* TypeError before the try: the handler's promise rejects
                /\ outbox' = << >>
                /\ lastEvent' = ChunkEvent("binary", c, frame, mimeType, hadBuffer, Failure,
                                           "threw", << >>, NoPath, "none")
                /\ UNCHANGED << files, chunks, unlinkFailed >>
           ELSE /\ outbox' = writeSends(readyState, c, w)
                /\ IF w = "ok"
                     THEN \* suspended at await transcribeAudio(...)
                          /\ files' = written
                          /\ chunks' = [f \in DOMAIN chunks \cup {frame} |->
                                IF f = frame
                                  THEN Chunk(c, tempPath, Types(outbox'), mimeType, hadBuffer)
                                  ELSE chunks[f]]
                          /\ lastEvent' = ChunkEvent("binary", c, frame, mimeType, hadBuffer,
                                Failure, "suspended", Types(outbox'), tempPath, "none")
                          /\ UNCHANGED unlinkFailed
                     ELSE \* writeFileSync threw: catch, then finally
                          /\ files' = cleanup(written, tempPath, u)
                          /\ unlinkFailed' =
                                unlinkFailed \cup cleanupFailed(written, tempPath, u)
                          /\ lastEvent' = ChunkEvent("binary", c, frame, mimeType, hadBuffer,
                                Failure, "returned", Types(outbox'), tempPath,
                                unlinkResult(written, tempPath, u))
                          /\ UNCHANGED chunks
  /\ UNCHANGED << apiKey, clients, readyState, audioBuffers, demoIdx, ctl >>

\* mutant: a failed call is made again
afterSettleRetries(ch, f, response) ==
  IF response.ok THEN [g \in DOMAIN ch \ {f} |-> ch[g]] ELSE ch

\* the invocations still suspended once the call of frame f has settled: the
\* catch block reports the failure and does not call transcribeAudio again
afterSettle(ch, f, response) == [g \in DOMAIN ch \ {f} |-> ch[g]]

\* mutant: the finally block names the file again from the buffer the
\* connection has when the call settles
releasedPathFromBuffer(ch, f, bufs) ==
  tempPathOf(f, guessExtension(resolveMimeType(bufs, ch[f].client)))

\* the tempPath the finally block releases: the const computed when the
\* frame arrived
releasedPath(ch, f, bufs) == ch[f].tempPath

\* the awaited transcription call of frame f settles: the rest of
\* handleAudioChunk (result or catch, then finally)
TranscribeReturn(f, response, u) ==
  /\ UNCHANGED << clientVars, storeVars >>
  /\ settles(chunks, f)
  /\ LET c == chunks[f].client
         tempPath == releasedPath(chunks, f, audioBuffers)
     IN  /\ outbox' = resultSends(readyState, c, response)
         /\ files' = cleanup(files, tempPath, u)
         /\ unlinkFailed' = unlinkFailed \cup cleanupFailed(files, tempPath, u)
         /\ chunks' = afterSettle(chunks, f, response)
         /\ lastEvent' = ChunkEvent("settled", c, f, chunks[f].mimeType, chunks[f].hadBuffer,
                                    response, "returned",
                                    chunks[f].emitted \o Types(outbox'), tempPath,
                                    unlinkResult(files, tempPath, u))
  /\ UNCHANGED << apiKey, clients, readyState, audioBuffers, demoIdx, ctl, nEvents, nFrames >>

\* ws.on("close")
Close(c) ==
  /\ UNCHANGED << clientVars, storeVars >>
  /\ c \in ClientIds
  /\ readyState[c] # "CLOSED"
  /\ readyState' = [readyState EXCEPT ![c] = "CLOSED"]
  /\ clients' = clientsDelete(clients, c)
  /\ outbox' = << >>
  /\ lastEvent' = Quiet("close", c)
  /\ UNCHANGED << apiKey, audioBuffers, demoIdx, files, chunks, unlinkFailed, ctl,
                  nEvents, nFrames >>

\* ws.on("error"): the socket is no longer OPEN when the event is emitted;
\* its close event follows
SocketError(c) ==
  /\ UNCHANGED << clientVars, storeVars >>
  /\ c \in ClientIds
  /\ readyState[c] = "OPEN"
  /\ readyState' = [readyState EXCEPT ![c] = "CLOSING"]
  /\ clients' = clientsDelete(clients, c)
  /\ outbox' = << >>
  /\ lastEvent' = Quiet("error", c)
  /\ UNCHANGED << apiKey, audioBuffers, demoIdx, files, chunks, unlinkFailed, ctl,
                  nEvents, nFrames >>

\* the responses of the transcription call the pipeline is run against
Responses ==
  { Failure,
    Response(TRUE, Undef, Undef),
    Response(TRUE, Str(<<32,104,105,32>>), Str(<<101,110,103,108,105,115,104>>)),
    Response(TRUE, Str(<<6047,6077>>), Str(<<101,110,103,108,105,115,104>>)) }

\* the (text, language) pairs normalizeLanguage is run against: text missing,
\* blank, Latin, Khmer (first and last code unit of the block, alone and
\* mixed) and the code units next to the block; language missing, empty,
\* "english", "khmer" in three spellings, inside a longer name, "km", "KM"
LangTexts ==
  { Undef, Str(<<32,10>>), Str(<<32,104,105,32>>), Str(<<6016>>),
    Str(<<104,105,32,6143,33>>), Str(<<6015>>), Str(<<6144,97>>) }

LangNames ==
  { Undef, Str(<< >>), Str(<<101,110,103,108,105,115,104>>), Str(Khmer),
    Str(<<75,104,109,101,114>>), Str(<<75,72,77,69,82>>),
    Str(<<99,101,110,116,114,97,108,32,107,104,109,101,114>>),
    Str(LangKm), Str(<<75,77>>) }

LangResponses ==
  {Failure} \cup {Response(TRUE, t, l) : t \in LangTexts, l \in LangNames}

Next ==
  \/ Connect
  \/ \E c \in ClientIds, msg \in TextInputs : RecvText(c, msg)
  \/ \E c \in ClientIds : RecvBinaryDemo(c)
  \/ \E c \in ClientIds, w \in WriteOutcomes, u \in UnlinkOutcomes : RecvBinaryLive(c, w, u)
  \/ \E f \in DOMAIN chunks, r \in Responses, u \in UnlinkOutcomes : TranscribeReturn(f, r, u)
  \/ \E c \in ClientIds : Close(c)
  \/ \E c \in ClientIds : SocketError(c)

Spec == Init /\ [][Next]_vars

(* The transcription gateway on its own: one connection with one chunk      *)
(* suspended at the transcription call (the state after Connect and a       *)
(* binary frame whose write succeeded), settled with every response of      *)
(* LangResponses, the connection open or closed by then.                    *)
LangInit ==
  LET tempPath == tempPathOf(1, guessExtension(Str(AudioWebm)))
  IN  /\ apiKey = TRUE
      /\ clients = {1}
      /\ readyState = << "OPEN" >>
      /\ audioBuffers = << >>
      /\ demoIdx = 0
      /\ files = {tempPath}
      /\ chunks = (1 :> Chunk(1, tempPath, << "processing" >>, Str(AudioWebm), FALSE))
      /\ unlinkFailed = {}
      /\ ctl = << << >> >>
      /\ nEvents = 2
      /\ nFrames = 1
      /\ lastEvent = ChunkEvent("binary", 1, 1, Str(AudioWebm), FALSE, Failure, "suspended",
                                << "processing" >>, tempPath, "none")
      /\ outbox = send(readyState, 1, Plain("processing"))
      /\ ClientInit
      /\ StoreInit

LangNext ==
  \/ \E f \in DOMAIN chunks, r \in LangResponses, u \in UnlinkOutcomes :
        TranscribeReturn(f, r, u)
  \/ \E c \in ClientIds : Close(c)

SpecLang == LangInit /\ [][LangNext]_vars

(* ---------------------- the browser client (App.jsx) -------------------- *)
\* transcript entries the client holds at most (the feed is cleared by every
\* startSession)
MaxEntries == 2

ServerMsgs ==
  { ServerMsg("throws", "undefined", Undef, Undef),
    ServerMsg("object", "connected", Undef, Undef),
    ServerMsg("object", "audio_start_ack", Undef, Undef),
    ServerMsg("object", "processing", Undef, Undef),
    ServerMsg("object", "silence", Undef, Undef),
    ServerMsg("object", "error", Undef, Undef),
    ServerMsg("object", "transcript", Str(<<32,104,105,32>>), Str(LangEn)),
    ServerMsg("object", "transcript", Str(<<6047,6077>>), Str(LangKm)),
    ServerMsg("object", "transcript", Str(<<104,105>>), Undef),
    ServerMsg("object", "transcript", Str(<<32,10>>), Str(LangEn)),
    ServerMsg("object", "transcript", Undef, Str(LangEn)),
    ServerMsg("object", "transcript", Num(42), Str(LangEn)) }

\* { id, text: msg.text.trim(), lang: msg.lang || "en", time }
Entry(msg) == [text |-> Trim(msg.text.s), lang |-> OrElse(msg.lang, Str(LangEn))]

\* msg.text?.trim() throws when text is neither a string nor undefined; the
\* try / catch of ws.onmessage swallows it
handleServerMessageThrows(msg) ==
  msg.type = "transcript" /\ msg.text.t \notin {"string", "undefined"}

\* if (msg.text?.trim())
hasText(msg) == msg.text.t = "string" /\ Trim(msg.text.s) # << >>

\* mutant: a server error puts the client in its error status
handleServerMessageStatusStops(st, msg) ==
  CASE msg.type = "transcript" -> "listening"
    [] msg.type = "processing" -> "processing"
    [] msg.type = "silence" -> "listening"
    [] msg.type = "error" -> "error"
    [] OTHER -> st

\* handleServerMessage: the status after the switch
handleServerMessageStatus(st, msg) ==
  CASE msg.type = "transcript" -> "listening"
    [] msg.type = "processing" -> "processing"
    [] msg.type = "silence" -> "listening"
    [] msg.type = "error" -> "listening"
    [] OTHER -> st

\* mutant: the new entry is put in front ([entry, ...p])
handleServerMessageEntriesPrepends(entries, msg) ==
  IF msg.type = "transcript" /\ hasText(msg) THEN << Entry(msg) >> \o entries ELSE entries

\* handleServerMessage: setTx(p => [...p, entry]) and the same on sessionRef
handleServerMessageEntries(entries, msg) ==
  IF msg.type = "transcript" /\ hasText(msg) THEN Append(entries, Entry(msg)) ELSE entries

\* handleServerMessage: toast$(msg.message || "Transcription error", "warn")
handleServerMessageToast(t, msg) == IF msg.type = "error" THEN "server error" ELSE t

\* startSession up to await connectWS()
StartSession ==
  /\ lastMsg' = NoServerMsg
  /\ ~isActive
  /\ starting = "none"
  /\ status' = "connecting"
  /\ transcripts' = << >>
  /\ sessionRef' = << >>
  /\ starting' = "connectWS"
  /\ UNCHANGED << isActive, wsRef, mediaRecRef, toast >>
  /\ UNCHANGED << serverVars, storeVars >>

\* ws.onopen: connectWS resolves, startSession goes on to await setupMic()
WsOpen ==
  /\ lastMsg' = NoServerMsg
  /\ starting = "connectWS"
  /\ wsRef' = "open"
  /\ starting' = "setupMic"
  /\ UNCHANGED << isActive, status, transcripts, sessionRef, mediaRecRef, toast >>
  /\ UNCHANGED << serverVars, storeVars >>

\* ws.onerror: connectWS rejects; the catch of startSession
WsFail ==
  /\ lastMsg' = NoServerMsg
  /\ starting = "connectWS"
  /\ status' = "error"
  /\ toast' = "start error"
  /\ starting' = "none"
  /\ UNCHANGED << isActive, transcripts, sessionRef, wsRef, mediaRecRef >>
  /\ UNCHANGED << serverVars, storeVars >>

\* setupMic resolves: the rest of startSession's try block
MicReady ==
  /\ lastMsg' = NoServerMsg
  /\ starting = "setupMic"
  /\ mediaRecRef' = "recording"
  /\ isActive' = TRUE
  /\ status' = "listening"
  /\ starting' = "none"
  /\ UNCHANGED << transcripts, sessionRef, wsRef, toast >>
  /\ UNCHANGED << serverVars, storeVars >>

\* getUserMedia rejects: the catch of startSession (the socket stays open)
MicDenied ==
  /\ lastMsg' = NoServerMsg
  /\ starting = "setupMic"
  /\ status' = "error"
  /\ toast' = "start error"
  /\ starting' = "none"
  /\ UNCHANGED << isActive, transcripts, sessionRef, wsRef, mediaRecRef >>
  /\ UNCHANGED << serverVars, storeVars >>

\* ws.onmessage
OnMessage(msg) ==
  /\ lastMsg' = msg
  /\ wsRef = "open"
  /\ Len(handleServerMessageEntries(transcripts, msg)) <= MaxEntries
  /\ IF msg.parse = "object" /\ ~handleServerMessageThrows(msg)
       THEN /\ status' = handleServerMessageStatus(status, msg)
            /\ transcripts' = handleServerMessageEntries(transcripts, msg)
            /\ sessionRef' = handleServerMessageEntries(sessionRef, msg)
            /\ toast' = handleServerMessageToast(toast, msg)
       ELSE UNCHANGED << status, transcripts, sessionRef, toast >>
  /\ UNCHANGED << isActive, wsRef, mediaRecRef, starting >>
  /\ UNCHANGED << serverVars, storeVars >>

\* ws.onclose, the server or the network having closed the socket
WsClosed ==
  /\ lastMsg' = NoServerMsg
  /\ wsRef = "open"
  /\ wsRef' = "null"
  /\ UNCHANGED << isActive, status, transcripts, sessionRef, mediaRecRef, toast, starting >>
  /\ UNCHANGED << serverVars, storeVars >>

\* stopSession, behind the buttons shown while isActive
StopSession ==
  /\ lastMsg' = NoServerMsg
  /\ isActive
  /\ mediaRecRef' = "null"
  /\ wsRef' = "null"
  /\ isActive' = FALSE
  /\ status' = "idle"
  /\ UNCHANGED << transcripts, sessionRef, toast, starting >>
  /\ UNCHANGED << serverVars, storeVars >>

\* setTimeout(() => setToast(null), 3500)
ToastTimeout ==
  /\ lastMsg' = NoServerMsg
  /\ toast # "none"
  /\ toast' = "none"
  /\ UNCHANGED << isActive, status, transcripts, sessionRef, wsRef, mediaRecRef, starting >>
  /\ UNCHANGED << serverVars, storeVars >>

ClientNext ==
  \/ StartSession
  \/ WsOpen
  \/ WsFail
  \/ MicReady
  \/ MicDenied
  \/ \E msg \in ServerMsgs : OnMessage(msg)
  \/ WsClosed
  \/ StopSession
  \/ ToastTimeout

\* the client on its own: the server's variables stay as Init leaves them
SpecClient == Init /\ [][ClientNext]_vars

(* ====================================================================== *)
(*            The JSON store and the REST routes that write it            *)
(* ====================================================================== *)
\* signup requests received
MaxSignups == 3
\* POST /api/sessions requests received
MaxSaves == 2

UserA == <<97>>                                          \* "a"
UserB == <<98>>                                          \* "b"
Secret == <<112>>                                        \* "p"

\* the bodies of POST /api/auth/signup: { username, password }
SignupBodies ==
  { [username |-> UserA, password |-> Secret],
    [username |-> UserB, password |-> Secret],
    [username |-> << >>, password |-> Secret],
    [username |-> UserA, password |-> << >>] }

\* what _db.users.find answers when no user matches
NoUser == [id |-> 0, username |-> << >>]

\* _db.users.find(u => u.username === username) || null
findUserByUsername(users, username) ==
  IF \E i \in DOMAIN users : users[i].username = username
    THEN users[CHOOSE i \in DOMAIN users :
                 /\ users[i].username = username
                 /\ \A j \in 1..(i - 1) : users[j].username # username]
    ELSE NoUser

\* createUser: the random id is a fresh one (users are never removed); the
\* password hash and created_at are read by no modelled route
createUser(users, username) ==
  Append(users, [id |-> Len(users) + 1, username |-> username])

UserIds == {dbUsers[i].id : i \in DOMAIN dbUsers}

\* an element of the entries array of a request body; null is JSON's null
NullEntry == [isNull |-> TRUE, text |-> << >>, lang |-> << >>, time |-> 0]
BodyEntry(text, lang, time) ==
  [isNull |-> FALSE, text |-> text, lang |-> lang, time |-> time]

\* the entries member of a request body: absent, an array, or an object
\* with a length member
NoEntries == [kind |-> "undefined", items |-> << >>, length |-> 0]
EntriesArray(items) == [kind |-> "array", items |-> items, length |-> Len(items)]
EntriesObject(n) == [kind |-> "object", items |-> << >>, length |-> n]

TextLower == <<104, 105>>                                \* "hi"
TextUpper == <<72, 73>>                                  \* "HI"
TextOther == <<121, 111>>                                \* "yo"
TitleT == <<116>>                                        \* "t"

\* the bodies of POST /api/sessions: { title, date, entries }; date is a
\* timestamp
SessionBodies ==
  { [title |-> TitleT, date |-> 2,
     entries |-> EntriesArray(<< BodyEntry(TextLower, LangEn, 2),
                                 BodyEntry(TextUpper, LangEn, 1) >>)],
    [title |-> << >>, date |-> 1,
     entries |-> EntriesArray(<< BodyEntry(TextOther, LangKm, 1) >>)],
    [title |-> TitleT, date |-> 1, entries |-> NoEntries],
    [title |-> TitleT, date |-> 1, entries |-> EntriesArray(<< >>)],
    [title |-> TitleT, date |-> 1, entries |-> EntriesArray(<< NullEntry >>)],
    [title |-> TitleT, date |-> 1, entries |-> EntriesObject(1)] }

\* !entries?.length
noEntries(entries) == entries.kind = "undefined" \/ entries.length = 0

\* title || `Meeting — ${new Date(date).toLocaleDateString()}`
MeetingTitle(date) == <<77, 101, 101, 116, 105, 110, 103, 32, 48 + date>>
titleOf(body) == IF body.title # << >> THEN body.title ELSE MeetingTitle(body.date)

\* the elements for...of reaches before entry.id throws on a null element
RECURSIVE pushed(_)
pushed(items) ==
  IF items = << >> \/ Head(items).isNull
    THEN << >>
    ELSE << Head(items) >> \o pushed(Tail(items))

\* for (const entry of session.entries) throws: the value is not iterable,
\* or an element is null
entriesThrow(entries) ==
  \/ entries.kind = "object"
  \/ \E i \in DOMAIN entries.items : entries.items[i].isNull

\* saveSession: the session row is pushed first, then one row per entry
\* until the loop throws; saveDB writes the file and is taken to succeed
saveSessionRows(sessions, session) ==
  Append(sessions, [id |-> session.id, user_id |-> session.user_id,
                    title |-> session.title, date |-> session.date])

saveSessionEntries(rows, session) ==
  LET items == pushed(session.entries.items)
  IN rows \o [i \in 1..Len(items) |->
                [session_id |-> session.id, text |-> items[i].text,
                 lang |-> items[i].lang, time |-> items[i].time]]

\* _db.sessions.findIndex(s => s.id === id && s.user_id === userId) !== -1
owns(sessions, id, userId) ==
  \E i \in DOMAIN sessions : sessions[i].id = id /\ sessions[i].user_id = userId

\* mutant: the owner is not compared
findIndexAnyOwner(sessions, id, userId) ==
  IF \E i \in DOMAIN sessions : sessions[i].id = id
    THEN CHOOSE i \in DOMAIN sessions :
           /\ sessions[i].id = id
           /\ \A j \in 1..(i - 1) : sessions[j].id # id
    ELSE 0

\* _db.sessions.findIndex(s => s.id === id && s.user_id === userId), counted
\* from 1; 0 stands for -1
findIndex(sessions, id, userId) ==
  IF owns(sessions, id, userId)
    THEN CHOOSE i \in DOMAIN sessions :
           /\ sessions[i].id = id /\ sessions[i].user_id = userId
           /\ \A j \in 1..(i - 1) :
                ~(sessions[j].id = id /\ sessions[j].user_id = userId)
    ELSE 0

\* if (idx === -1) return false; ... return true
deleteSession(sessions, id, userId) == findIndex(sessions, id, userId) # 0

\* _db.sessions.splice(idx, 1)
deleteSessionRows(sessions, id, userId) ==
  LET idx == findIndex(sessions, id, userId)
  IN IF idx = 0
       THEN sessions
       ELSE SubSeq(sessions, 1, idx - 1) \o SubSeq(sessions, idx + 1, Len(sessions))

\* _db.entries.filter(e => e.session_id !== id), after the session was found
deleteSessionEntries(sessions, rows, id, userId) ==
  IF findIndex(sessions, id, userId) = 0
    THEN rows
    ELSE SelectSeq(rows, LAMBDA e : e.session_id # id)

\* Array.prototype.sort is stable: an element moves behind those that
\* compare lower and those that compare equal and came before it
Sorted(s, key(_)) ==
  LET rank(i) == Cardinality({j \in DOMAIN s :
                    \/ key(s[j]) < key(s[i])
                    \/ key(s[j]) = key(s[i]) /\ j < i}) + 1
  IN [p \in DOMAIN s |-> s[CHOOSE i \in DOMAIN s : rank(i) = p]]

\* .filter(e => e.session_id === id).sort((a, b) => a.time - b.time)
entriesOf(rows, id) ==
  Sorted(SelectSeq(rows, LAMBDA e : e.session_id = id), LAMBDA e : e.time)

\* getSessions(userId)
getSessions(sessions, rows, userId) ==
  LET own == Sorted(SelectSeq(sessions, LAMBDA s : s.user_id = userId),
                    LAMBDA s : 0 - s.date)
  IN [i \in DOMAIN own |->
        [id |-> own[i].id, user_id |-> own[i].user_id, title |-> own[i].title,
         date |-> own[i].date, entries |-> entriesOf(rows, own[i].id)]]

\* what getSessionById answers when no session matches
NoSession == [id |-> 0, user_id |-> 0, title |-> << >>, date |-> 0, entries |-> << >>]

\* getSessionById(id, userId)
getSessionById(sessions, rows, id, userId) ==
  IF owns(sessions, id, userId)
    THEN LET s == sessions[CHOOSE i \in DOMAIN sessions :
                      /\ sessions[i].id = id /\ sessions[i].user_id = userId
                      /\ \A j \in 1..(i - 1) :
                           ~(sessions[j].id = id /\ sessions[j].user_id = userId)]
         IN [id |-> s.id, user_id |-> s.user_id, title |-> s.title,
             date |-> s.date, entries |-> entriesOf(rows, id)]
    ELSE NoSession

\* mutant: the ids of every user's sessions are collected
userSessionIdsOfAll(sessions, userId) ==
  {sessions[i].id : i \in DOMAIN sessions}

\* the ids searchTranscripts collects in userSessionIds
userSessionIds(sessions, userId) ==
  {sessions[i].id : i \in {j \in DOMAIN sessions : sessions[j].user_id = userId}}

\* _db.sessions.find(s => s.id === entry.session_id)?.title || ''
sessionTitle(sessions, id) ==
  IF \E i \in DOMAIN sessions : sessions[i].id = id
    THEN sessions[CHOOSE i \in DOMAIN sessions :
                    /\ sessions[i].id = id
                    /\ \A j \in 1..(i - 1) : sessions[j].id # id].title
    ELSE << >>

\* searchTranscripts(query, userId)
searchTranscripts(sessions, rows, query, userId) ==
  LET hits == SelectSeq(rows, LAMBDA e :
                /\ e.session_id \in userSessionIds(sessions, userId)
                /\ Includes(ToLowerCase(e.text), ToLowerCase(query)))
      results == [i \in DOMAIN hits |->
                    [session_id |-> hits[i].session_id,
                     title |-> sessionTitle(sessions, hits[i].session_id),
                     text |-> hits[i].text, lang |-> hits[i].lang,
                     time |-> hits[i].time]]
  IN Sorted(results, LAMBDA r : 0 - r.time)

\* POST /api/auth/signup up to its first await: the body is validated and
\* the username looked up; the request then waits for bcrypt
SignupCheck(body) ==
  /\ nSignups < MaxSignups
  /\ nSignups' = nSignups + 1
  /\ IF body.username = << >> \/ body.password = << >>
       THEN /\ lastStore' = StoreEvent("signup", body.username, 0, 0, 400, FALSE)
            /\ UNCHANGED signups
       ELSE IF findUserByUsername(dbUsers, body.username) # NoUser
         THEN /\ lastStore' = StoreEvent("signup", body.username, 0, 0, 400, FALSE)
              /\ UNCHANGED signups
         ELSE /\ signups' = [r \in DOMAIN signups \cup {nSignups + 1} |->
                               IF r \in DOMAIN signups THEN signups[r]
                                                       ELSE body.username]
              /\ lastStore' = StoreEvent("signup", body.username, 0, 0, 0, FALSE)
  /\ UNCHANGED << dbUsers, dbSessions, dbEntries, nSaves >>
  /\ UNCHANGED << serverVars, clientVars >>

\* POST /api/auth/signup after bcrypt: createUser without a second lookup,
\* or the catch block when bcrypt failed
SignupCreate(r, hashed) ==
  /\ r \in DOMAIN signups
  /\ signups' = [q \in DOMAIN signups \ {r} |-> signups[q]]
  /\ IF hashed
       THEN /\ dbUsers' = createUser(dbUsers, signups[r])
            /\ lastStore' = StoreEvent("created", signups[r], Len(dbUsers) + 1,
                                       0, 201, TRUE)
       ELSE /\ UNCHANGED dbUsers
            /\ lastStore' = StoreEvent("created", signups[r], 0, 0, 500, FALSE)
  /\ UNCHANGED << dbSessions, dbEntries, nSignups, nSaves >>
  /\ UNCHANGED << serverVars, clientVars >>

\* POST /api/sessions with the token of user u; uuid() is a fresh id
SaveSession(u, body) ==
  /\ u \in UserIds
  /\ nSaves < MaxSaves
  /\ nSaves' = nSaves + 1
  /\ IF noEntries(body.entries)
       THEN /\ lastStore' = StoreEvent("save", << >>, u, 0, 400, FALSE)
            /\ UNCHANGED << dbSessions, dbEntries >>
       ELSE LET session == [id |-> nSaves + 1, user_id |-> u,
                            title |-> titleOf(body), date |-> body.date,
                            entries |-> body.entries]
            IN /\ dbSessions' = saveSessionRows(dbSessions, session)
               /\ dbEntries' = saveSessionEntries(dbEntries, session)
               /\ lastStore' = StoreEvent("save", << >>, u, nSaves + 1,
                                 IF entriesThrow(body.entries) THEN 500 ELSE 201,
                                 ~entriesThrow(body.entries))
  /\ UNCHANGED << dbUsers, signups, nSignups >>
  /\ UNCHANGED << serverVars, clientVars >>

\* DELETE /api/sessions/:id with the token of user u; id 0 is an id that
\* was never issued
DeleteSession(id, u) ==
  /\ u \in UserIds
  /\ id <= nSaves
  /\ dbSessions' = deleteSessionRows(dbSessions, id, u)
  /\ dbEntries' = deleteSessionEntries(dbSessions, dbEntries, id, u)
  /\ lastStore' = StoreEvent("delete", << >>, u, id,
                             IF deleteSession(dbSessions, id, u) THEN 200 ELSE 404,
                             deleteSession(dbSessions, id, u))
  /\ UNCHANGED << dbUsers, signups, nSignups, nSaves >>
  /\ UNCHANGED << serverVars, clientVars >>

AuthNext ==
  \/ \E body \in SignupBodies : SignupCheck(body)
  \/ \E r \in 1..MaxSignups, hashed \in BOOLEAN : SignupCreate(r, hashed)

\* the signup route on its own: the WebSocket pipeline, the client and the
\* sessions stay as Init leaves them; no REST route modelled here reads the
\* API key
AuthInit == Init /\ apiKey = TRUE

SpecAuth == AuthInit /\ [][AuthNext]_vars

StoreNext ==
  \/ \E u \in UserIds, body \in SessionBodies : SaveSession(u, body)
  \/ \E id \in 0..MaxSaves, u \in UserIds : DeleteSession(id, u)

\* the store after two signups, of "a" and then "b", were answered 201 (a
\* state SpecAuth reaches); every session request carries the token of one
\* of the two users
StoreUsersInit ==
  /\ GatewayInit /\ apiKey = TRUE
  /\ ClientInit
  /\ dbUsers = createUser(createUser(<< >>, UserA), UserB)
  /\ dbSessions = << >>
  /\ dbEntries = << >>
  /\ signups = << >>
  /\ nSignups = 2
  /\ nSaves = 0
  /\ lastStore = StoreEvent("created", UserB, 2, 0, 201, TRUE)

\* the session routes on their own
SpecStore == StoreUsersInit /\ [][StoreNext]_vars

(* ====================================================================== *)
(*                               Properties                               *)
(* ====================================================================== *)
ResultTypes == {"transcript", "silence", "error"}

Results(emitted) == {i \in DOMAIN emitted : emitted[i] \in ResultTypes}

InFlightPaths == {chunks[f].tempPath : f \in DOMAIN chunks}

IsChunkEvent == lastEvent.kind \in {"binary", "settled"}

\* the chunk of the last event has left handleAudioChunk
Completed == IsChunkEvent /\ lastEvent.outcome \in {"returned", "threw"}

EndsWith(seq, x) == seq # << >> /\ seq[Len(seq)] = x

(* C1: a binary frame whose handleAudioChunk invocation has completed was   *)
(* answered with exactly one message among transcript, silence and error.   *)
(* Fails on the code: after audio_start with a non-string mimeType,         *)
(* guessExtension throws before the try block and the frame gets no         *)
(* message at all.                                                          *)
C1_ExactlyOneResultPerFrame ==
  Completed => Cardinality(Results(lastEvent.emitted)) = 1

(* C2: audioBuffers holds an entry only for connections that are still in   *)
(* the clients registry.  Fails on the code: the close and error handlers   *)
(* delete from clients only.                                                *)
C2_BuffersOnlyForRegisteredClients == DOMAIN audioBuffers \subseteq clients

(* C3 as stated: once handleAudioChunk has completed for a chunk its temp   *)
(* file is absent, and every chunk file on disk belongs to a chunk still    *)
(* in flight.                                                               *)
C3_NoTempFileAfterCompletion ==
  /\ Completed => lastEvent.tempPath \notin files
  /\ files \subseteq InFlightPaths

(* C3 as amended: the same, except for the files whose removal itself       *)
(* failed (fs.unlinkSync threw, which the finally block swallows).          *)
C3_NoTempFileUnlessUnlinkFailed ==
  /\ Completed /\ lastEvent.unlink # "failed" => lastEvent.tempPath \notin files
  /\ (files \ unlinkFailed) \subseteq InFlightPaths

\* a transcription failure whose temp file was removed on the way out
C3_Witness ==
  /\ lastEvent.kind = "settled"
  /\ ~lastEvent.response.ok
  /\ lastEvent.unlink = "ok"
  /\ lastEvent.tempPath # NoPath
  /\ files = {}

(* C4: after audio_start ... audio_end on a connection no Session Buffer    *)
(* of that connection remains, and a binary frame that arrives then is      *)
(* processed with mime type audio/webm (temp file extension .webm).         *)
C4_StartEndLeavesNoBuffer ==
  /\ \A c \in ClientIds : EndsWith(ctl[c], "audio_end") => c \notin DOMAIN audioBuffers
  /\ lastEvent.kind = "binary" /\ EndsWith(ctl[lastEvent.client], "audio_end")
       => /\ lastEvent.mimeType = Str(AudioWebm)
          /\ lastEvent.tempPath \in {NoPath, << lastEvent.frame, <<46,119,101,98,109>> >>}

\* a live-mode frame received right after audio_start, audio_end
C4_Witness ==
  /\ lastEvent.kind = "binary"
  /\ apiKey
  /\ ctl[lastEvent.client] = << "audio_start", "audio_end" >>
  /\ lastEvent.outcome = "suspended"

(* C5: a connection has at most one Session Buffer, and after an            *)
(* audio_start the buffer holds the mime type of that message and no        *)
(* pendingMeta, whatever buffer the connection had before.                  *)
C5_LastStartWins ==
  /\ DOMAIN audioBuffers \subseteq ClientIds
  /\ lastEvent.kind = "text" /\ lastEvent.msg.parse = "object"
       /\ lastEvent.msg.type = "audio_start"
       => /\ lastEvent.client \in DOMAIN audioBuffers
          /\ audioBuffers[lastEvent.client].pendingMeta = NoMsg
          /\ audioBuffers[lastEvent.client].mimeType =
               IF lastEvent.msg.mimeType \in {Undef, Str(<< >>)}
                 THEN Str(AudioWebm)
                 ELSE lastEvent.msg.mimeType

\* a second audio_start, with another mime type, on a buffer holding pendingMeta
C5_Witness ==
  /\ lastEvent.kind = "text"
  /\ lastEvent.msg.type = "audio_start"
  /\ lastEvent.msg.mimeType = Str(AudioOgg)
  /\ lastEvent.before.mimeType = Str(AudioWebm)
  /\ lastEvent.before.pendingMeta # NoMsg

\* the response of the settled call carries text with a Khmer-block code unit
KhmerResponse ==
  /\ lastEvent.kind = "settled"
  /\ lastEvent.response.ok
  /\ lastEvent.response.text.t = "string"
  /\ \E i \in DOMAIN lastEvent.response.text.s :
       lastEvent.response.text.s[i] \in 6016..6143

(* C6: when the transcribed text holds a code unit of U+1780-U+17FF,        *)
(* transcribeAudio returns lang km whatever language the capability         *)
(* reported, and the message sent for the frame, if the socket is still     *)
(* open, is one transcript carrying lang km.                                *)
C6_KhmerTextIsKm ==
  KhmerResponse =>
    /\ lastEvent.result.lang = LangKm
    /\ \A i \in DOMAIN outbox : outbox[i].type = "transcript" /\ outbox[i].lang = LangKm
    /\ readyState[lastEvent.client] = "OPEN" => Len(outbox) = 1

\* Khmer text reported as english, delivered
C6_Witness ==
  /\ KhmerResponse
  /\ lastEvent.response.language = Str(<<101,110,103,108,105,115,104>>)
  /\ Len(outbox) = 1

\* s holds "khmer" in any mix of upper and lower case
HoldsKhmerAnyCase(s) ==
  \E i \in 1..(Len(s) - 4) :
    \A j \in 1..5 : s[i + j - 1] \in {Khmer[j], Khmer[j] - 32}

\* the reported language is km or KM or Km or kM
IsKmAnyCase(s) == Len(s) = 2 /\ s[1] \in {107, 75} /\ s[2] \in {109, 77}

HasKhmerBlock(text) == \E i \in DOMAIN text : text[i] \in 6016..6143

(* C7 as stated: the language of a transcription is km if the text has a    *)
(* Khmer-block character, otherwise km if the reported language name        *)
(* contains khmer (any case), otherwise en.                                 *)
C7_ThreeRuleReference ==
  lastEvent.kind = "settled" /\ lastEvent.response.ok =>
    lastEvent.result.lang =
      IF HasKhmerBlock(lastEvent.result.text) THEN LangKm
      ELSE IF HoldsKhmerAnyCase(lastEvent.response.language.s) THEN LangKm
      ELSE LangEn

(* C7 as amended: ... otherwise km if the reported language name contains   *)
(* khmer or is km (any case), otherwise en.                                 *)
C7_FourRuleReference ==
  lastEvent.kind = "settled" /\ lastEvent.response.ok =>
    lastEvent.result.lang =
      IF HasKhmerBlock(lastEvent.result.text) THEN LangKm
      ELSE IF HoldsKhmerAnyCase(lastEvent.response.language.s) THEN LangKm
      ELSE IF IsKmAnyCase(lastEvent.response.language.s) THEN LangKm
      ELSE LangEn

\* Latin text whose language was reported as "KHMER"
C7_Witness ==
  /\ lastEvent.kind = "settled"
  /\ lastEvent.response.ok
  /\ lastEvent.response.language = Str(<<75,72,77,69,82>>)
  /\ lastEvent.result.text = <<104,105>>
  /\ lastEvent.result.lang = LangKm

(* C8: in fallback mode the k-th binary frame of the process (k from 0,     *)
(* all connections together) is answered with DEMO_PHRASES[k mod 6], and    *)
(* the counter has advanced by exactly one per frame.                       *)
C8_DemoRoundRobin ==
  ~apiKey =>
    /\ demoIdx = nFrames
    /\ lastEvent.kind = "binary" =>
         /\ lastEvent.frame = nFrames
         /\ Len(outbox) = 1
         /\ outbox[1].to = lastEvent.client
         /\ outbox[1].type = "transcript"
         /\ outbox[1].text = DEMO_PHRASES[((nFrames - 1) % 6) + 1].text
         /\ outbox[1].lang = DEMO_PHRASES[((nFrames - 1) % 6) + 1].lang

\* the seventh frame, on the second connection, gets the first phrase again
C8_Witness ==
  /\ ~apiKey
  /\ lastEvent.kind = "binary"
  /\ nFrames = 7
  /\ lastEvent.client = 2
  /\ outbox[1].text = DEMO_PHRASES[1].text

(* C9: without an API key a binary frame writes no file, starts no          *)
(* transcription call, sends no processing message and is answered with     *)
(* exactly one transcript, the next demo phrase, whatever the connection's  *)
(* Session Buffer.                                                          *)
C9_FallbackSkipsThePipeline ==
  ~apiKey =>
    /\ files = {}
    /\ DOMAIN chunks = {}
    /\ lastEvent.kind = "binary" =>
         /\ lastEvent.outcome = "returned"
         /\ lastEvent.tempPath = NoPath
         /\ lastEvent.emitted = << "transcript" >>
         /\ Types(outbox) = << "transcript" >>
         /\ outbox[1].text = DEMO_PHRASES[((demoIdx - 1) % 6) + 1].text
         /\ outbox[1].lang = DEMO_PHRASES[((demoIdx - 1) % 6) + 1].lang

\* the second fallback frame, received after an audio_start that declared a
\* number as mimeType
C9_Witness ==
  /\ ~apiKey
  /\ lastEvent.kind = "binary"
  /\ nFrames = 2
  /\ ctl[lastEvent.client] = << "audio_start" >>
  /\ lastEvent.mimeType = Num(42)

\* the text frame does not parse to an object with a known type
Malformed(msg) ==
  \/ msg.parse # "object"
  \/ msg.type \notin {"audio_start", "chunk_meta", "audio_end"}

(* C10: handling a text frame that is not parseable JSON or has an unknown  *)
(* type sends exactly one error message to the sender and changes nothing   *)
(* else: registry, socket state and Session Buffers stay as they were.      *)
C10_MalformedTextOnlyReportsError ==
  [][ lastEvent'.kind = "text" /\ Malformed(lastEvent'.msg) =>
        /\ Len(outbox') = 1
        /\ outbox'[1].to = lastEvent'.client
        /\ outbox'[1].type = "error"
        /\ lastEvent'.client \in clients'
        /\ readyState'[lastEvent'.client] = "OPEN"
        /\ UNCHANGED << clients, readyState, audioBuffers, demoIdx, files, chunks >>
    ]_vars

\* unparseable text on a connection whose buffer holds pendingMeta
C10_Witness ==
  /\ lastEvent.kind = "text"
  /\ lastEvent.msg.parse = "throws"
  /\ lastEvent.client \in DOMAIN audioBuffers
  /\ audioBuffers[lastEvent.client].pendingMeta # NoMsg
  /\ Len(outbox) = 1

\* the last event is a transcription call that failed
C11_FailedCall == lastEvent.kind = "settled" /\ ~lastEvent.response.ok

C12_SettledAfterClose ==
  lastEvent.kind = "settled" /\ readyState[lastEvent.client] # "OPEN"

(* C12 as stated: no message is ever sent on a connection that is not open  *)
(* any more; a transcription call that settles after its connection has     *)
(* closed sends nothing, handleAudioChunk returns normally, and the chunk's *)
(* temp file is gone afterwards.                                            *)
C12_ClosedConnectionGetsNothing ==
  /\ \A i \in DOMAIN outbox : readyState[outbox[i].to] = "OPEN"
  /\ C12_SettledAfterClose
       => /\ outbox = << >>
          /\ lastEvent.outcome = "returned"
          /\ lastEvent.tempPath \notin files

(* C12 as amended: the same, the temp file being gone unless its removal    *)
(* itself failed (fs.unlinkSync threw inside the finally block).            *)
C12_ClosedConnectionGetsNothingUnlessUnlinkFailed ==
  /\ \A i \in DOMAIN outbox : readyState[outbox[i].to] = "OPEN"
  /\ C12_SettledAfterClose
       => /\ outbox = << >>
          /\ lastEvent.outcome = "returned"
          /\ lastEvent.unlink # "failed" => lastEvent.tempPath \notin files
          /\ lastEvent.unlink = "failed" => lastEvent.tempPath \in unlinkFailed

\* a call returns a transcript after its connection's close event: nothing
\* is sent and the file is removed
C12_Witness ==
  /\ C12_SettledAfterClose
  /\ readyState[lastEvent.client] = "CLOSED"
  /\ lastEvent.response.ok
  /\ lastEvent.result.text # << >>
  /\ lastEvent.emitted = << "processing" >>
  /\ lastEvent.unlink = "ok"
  /\ lastEvent.tempPath \notin files

\* the last event belongs to a frame that found no Session Buffer
C13_FrameWithoutBuffer == IsChunkEvent /\ ~lastEvent.hadBuffer

\* the frame was taken as audio/webm, its file (live mode) named .webm
C13_Webm ==
  /\ lastEvent.outcome # "threw"
  /\ lastEvent.mimeType = Str(AudioWebm)
  /\ lastEvent.tempPath =
       IF apiKey THEN << lastEvent.frame, <<46,119,101,98,109>> >> ELSE NoPath

(* C13 as stated: a binary frame that finds no Session Buffer for its       *)
(* connection is accepted (handleAudioChunk does not throw), is processed   *)
(* with mime type audio/webm, its temp file (live mode) being named .webm,  *)
(* and once handleAudioChunk has completed for it exactly one message among *)
(* transcript, silence and error has been sent for it.                      *)
C13_NoBufferFrameGetsOneResult ==
  C13_FrameWithoutBuffer
    => /\ C13_Webm
       /\ Completed => Cardinality(Results(lastEvent.emitted)) = 1

(* C13 as amended: the same, the one result message being sent when the     *)
(* connection is still open at the time the chunk completes; when it has    *)
(* closed by then, no message is sent for the frame.                        *)
C13_NoBufferFrameGetsOneResultWhileOpen ==
  C13_FrameWithoutBuffer
    => /\ C13_Webm
       /\ Completed => Cardinality(Results(lastEvent.emitted)) =
                         IF readyState[lastEvent.client] = "OPEN" THEN 1 ELSE 0

\* a frame received after audio_start, audio_end is transcribed from a
\* .webm file and answered with a transcript
C13_Witness ==
  /\ C13_FrameWithoutBuffer
  /\ lastEvent.kind = "settled"
  /\ EndsWith(ctl[lastEvent.client], "audio_end")
  /\ C13_Webm
  /\ lastEvent.emitted = << "processing", "transcript" >>

\* the last event is a transcription call that returned
C14_Returned == lastEvent.kind = "settled" /\ lastEvent.response.ok

\* (response.text || "").trim()
C14_Text == Trim(OrElse(lastEvent.response.text, Str(<< >>)).s)

\* the one message the text calls for
C14_Expected ==
  IF C14_Text = << >>
    THEN << [to |-> lastEvent.client, type |-> "silence", text |-> << >>,
             lang |-> << >>, message |-> ""] >>
    ELSE << [to |-> lastEvent.client, type |-> "transcript", text |-> C14_Text,
             lang |-> normalizeLanguage(lastEvent.response.language, C14_Text),
             message |-> ""] >>

\* no transcript among the messages just sent has empty text
C14_NoEmptyTranscript ==
  \A i \in DOMAIN outbox : outbox[i].type = "transcript" => outbox[i].text # << >>

(* C14 as stated: when the transcription call returns, the text alone       *)
(* decides the result.  Empty or whitespace-only text (or none): exactly a  *)
(* silence message is sent, and neither transcript nor error.  Otherwise:   *)
(* exactly a transcript carrying the trimmed text and the normalized        *)
(* language.  No transcript ever carries empty text.                        *)
C14_TextDecidesResult ==
  /\ C14_NoEmptyTranscript
  /\ C14_Returned
       => /\ outbox = C14_Expected
          /\ lastEvent.emitted = << "processing" >> \o Types(C14_Expected)

(* C14 as amended: the same when the connection is still open at the time   *)
(* the call returns; when it has closed by then nothing is sent.            *)
C14_TextDecidesResultWhileOpen ==
  /\ C14_NoEmptyTranscript
  /\ C14_Returned
       => LET sent == IF readyState[lastEvent.client] = "OPEN"
                        THEN C14_Expected ELSE << >>
          IN  /\ outbox = sent
              /\ lastEvent.emitted = << "processing" >> \o Types(sent)

\* whitespace-only text is answered with silence alone
C14_Witness ==
  /\ C14_Returned
  /\ lastEvent.response.text = Str(<<32,10>>)
  /\ Types(outbox) = << "silence" >>
  /\ lastEvent.emitted = << "processing", "silence" >>

\* the last event is a parsed text frame of the given type
C15_Handled(type) ==
  lastEvent.kind = "text" /\ lastEvent.msg.parse = "object" /\ lastEvent.msg.type = type

(* C15: an audio_start, whether or not the connection had a Session Buffer, *)
(* leaves it with a buffer whose mime type is the declared one (audio/webm  *)
(* when none or an empty one is declared) and is answered with exactly one  *)
(* audio_start_ack; a chunk_meta on a connection that has a buffer stores   *)
(* the message in it, keeps its mime type and sends nothing; an audio_end   *)
(* leaves the connection without a buffer and sends nothing.                *)
C15_ControlProtocol ==
  LET c == lastEvent.client
      msg == lastEvent.msg
  IN  /\ C15_Handled("audio_start")
           => /\ c \in DOMAIN audioBuffers
              /\ audioBuffers[c].mimeType =
                   IF msg.mimeType \in {Undef, Str(<< >>)}
                     THEN Str(AudioWebm)
                     ELSE msg.mimeType
              /\ Types(outbox) = << "audio_start_ack" >>
              /\ outbox[1].to = c
      /\ C15_Handled("chunk_meta") /\ lastEvent.before # NoBuffer
           => /\ c \in DOMAIN audioBuffers
              /\ audioBuffers[c].pendingMeta = msg
              /\ audioBuffers[c].mimeType = lastEvent.before.mimeType
              /\ outbox = << >>
      /\ C15_Handled("audio_end")
           => /\ c \notin DOMAIN audioBuffers
              /\ outbox = << >>

\* a chunk_meta handled on a connection whose buffer declares audio/ogg
C15_Witness ==
  /\ C15_Handled("chunk_meta")
  /\ lastEvent.before = Buffer(Str(AudioOgg), NoMsg)
  /\ audioBuffers[lastEvent.client] = Buffer(Str(AudioOgg), lastEvent.msg)
  /\ outbox = << >>

\* the connections accepted that had neither a close nor an error event
C16_Live == {c \in ClientIds : readyState[c] = "OPEN"}

(* C16: in every state the keys of clients are exactly the connections that *)
(* were accepted and have had neither a close nor an error event.  A        *)
(* connection event adds an id never used before and sends connected to it, *)
(* no message having been sent to that id earlier; a close or error event   *)
(* removes the connection's id; no other event changes clients.             *)
C16_RegistryTracksLiveConnections ==
  /\ [](/\ clients = C16_Live
        /\ \A i \in DOMAIN outbox : outbox[i].to \in ClientIds)
  /\ [][ LET c == lastEvent'.client
         IN  /\ lastEvent'.kind = "connection"
                  => /\ c \notin ClientIds
                     /\ clients' = clients \cup {c}
                     /\ Types(outbox') = << "connected" >>
                     /\ outbox'[1].to = c
             /\ lastEvent'.kind \in {"close", "error"}
                  => /\ c \in ClientIds
                     /\ clients' = clients \ {c}
             /\ lastEvent'.kind \notin {"connection", "close", "error"}
                  => clients' = clients
       ]_vars

\* one of two registered connections has closed: the other one stays
C16_Witness ==
  /\ lastEvent.kind = "close"
  /\ lastEvent.client \notin clients
  /\ clients # {}
  /\ clients = C16_Live

(* C17: handling a server message of type error sets the client's status to *)
(* listening and leaves isActive, the recorder, the socket and the          *)
(* transcript entries as they were; and no server message of any type       *)
(* changes isActive, so no sequence of them ends an active session.         *)
C17_ErrorNeverStopsTheSession ==
  [][ /\ lastMsg' # NoServerMsg => isActive' = isActive
      /\ lastMsg'.parse = "object" /\ lastMsg'.type = "error"
           => /\ status' = "listening"
              /\ UNCHANGED << isActive, mediaRecRef, wsRef, transcripts, sessionRef >>
    ]_vars

\* an error message handled in an active session that holds an entry
C17_Witness ==
  /\ lastMsg.parse = "object"
  /\ lastMsg.type = "error"
  /\ isActive
  /\ status = "listening"
  /\ toast = "server error"
  /\ mediaRecRef = "recording"
  /\ wsRef = "open"
  /\ transcripts # << >>

(* C18: the frames of one connection are not serialized.  Whenever a call   *)
(* is pending, a further binary frame on its connection can be taken (its   *)
(* processing starts while the earlier call is pending), and every pending  *)
(* call can be the next one to settle, by failing or by returning, whatever *)
(* other calls of the connection are pending: the results of two frames can *)
(* be sent in either order.                                                 *)
C18_FramesAreNotSerialized ==
  \A f \in DOMAIN chunks :
    /\ ENABLED TranscribeReturn(f, Failure, "ok")
    /\ ENABLED (\E r \in Responses \ {Failure} : TranscribeReturn(f, r, "ok"))
    /\ readyState[chunks[f].client] = "OPEN" /\ nEvents < MaxEvents
         => ENABLED RecvBinaryLive(chunks[f].client, "ok", "ok")

\* the result of a later frame is sent while the call of an earlier frame
\* of the same connection is still pending
C18_Witness ==
  /\ lastEvent.kind = "settled"
  /\ Results(Types(outbox)) # {}
  /\ \E g \in DOMAIN chunks :
        g < lastEvent.frame /\ chunks[g].client = lastEvent.client

\* the last event is a live-mode frame whose writeFileSync threw
C19_WriteFailed ==
  lastEvent.kind = "binary" /\ apiKey /\ lastEvent.outcome = "returned"

\* the last event is a chunk whose unlinkSync threw
C19_RemovalFailed == IsChunkEvent /\ lastEvent.unlink = "failed"

\* the message sent last is the error a failed call gets
C19_ReportedAsFailure ==
  /\ outbox # << >>
  /\ outbox[Len(outbox)].type = "error"
  /\ outbox[Len(outbox)].message = "Transcription failed. Check your API key."
  /\ EndsWith(lastEvent.emitted, "error")

(* C19 as stated: a chunk whose temp file cannot be written, and a chunk    *)
(* whose temp file cannot be removed, is reported with an error message,    *)
(* the one a failed transcription call gets; and no step of                 *)
(* handleAudioChunk closes the connection or takes it out of clients.       *)
C19_StorageFailuresAreReported ==
  /\ [](/\ C19_WriteFailed => C19_ReportedAsFailure
        /\ C19_RemovalFailed /\ readyState[lastEvent.client] = "OPEN"
             => C19_ReportedAsFailure)
  /\ [][IsChunkEvent' => UNCHANGED << readyState, clients >>]_vars

(* C19 as amended: a failed write is reported with that error message, as   *)
(* the chunk's only message; a failed removal is not reported at all: the   *)
(* chunk keeps the messages its write and its call earned (a transcript or  *)
(* silence when the call returned), and its file stays.  No step of         *)
(* handleAudioChunk closes the connection or takes it out of clients.       *)
C19_OnlyWriteFailuresAreReported ==
  /\ [](/\ C19_WriteFailed
             => C19_ReportedAsFailure /\ lastEvent.emitted = << "error" >>
        /\ C19_RemovalFailed
             => /\ lastEvent.tempPath \in files
                /\ Cardinality(Results(lastEvent.emitted)) <= 1
                /\ lastEvent.kind = "settled" /\ lastEvent.response.ok
                     => \A i \in DOMAIN lastEvent.emitted :
                           lastEvent.emitted[i] # "error")
  /\ [][IsChunkEvent' => UNCHANGED << readyState, clients >>]_vars

\* a transcript was sent for a chunk whose file could not be removed: no
\* error is reported and the file is still there
C19_Witness ==
  /\ C19_RemovalFailed
  /\ lastEvent.kind = "settled"
  /\ readyState[lastEvent.client] = "OPEN"
  /\ lastEvent.emitted = << "processing", "transcript" >>
  /\ lastEvent.tempPath \in files

\* some transcription call is pending
C20_Pending == chunks # << >>

C21_HandlersWriteOwnEntriesOnly ==
  [][ \A d \in ClientIds' \ {lastEvent'.client} :
        /\ d \in clients' <=> d \in clients
        /\ d \in DOMAIN audioBuffers' <=> d \in DOMAIN audioBuffers
        /\ d \in DOMAIN audioBuffers => audioBuffers'[d] = audioBuffers[d]
    ]_vars

\* an audio_start is handled on one connection while another connection
\* holds a Session Buffer with another mime type
C21_Witness ==
  /\ lastEvent.kind = "text"
  /\ lastEvent.msg.type = "audio_start"
  /\ lastEvent.msg.mimeType = Undef
  /\ \E d \in clients \ {lastEvent.client} :
        /\ d \in DOMAIN audioBuffers
        /\ audioBuffers[d].mimeType = Str(AudioOgg)
  /\ audioBuffers[lastEvent.client].mimeType = Str(AudioWebm)

(* C22: the temp file names of the chunks in flight are pairwise different  *)
(* and each of their files exists; the name made for a binary frame in live *)
(* mode is the name of no file on disk and of no chunk in flight, on any    *)
(* connection, so its write touches no other chunk's file; and when a chunk *)
(* completes, no file but its own is removed.                               *)
C22_TempFilesNeverCollide ==
  /\ [](\A f \in DOMAIN chunks :
          /\ chunks[f].tempPath \in files
          /\ \A g \in DOMAIN chunks : g # f => chunks[g].tempPath # chunks[f].tempPath)
  /\ [][ /\ lastEvent'.kind = "binary" /\ lastEvent'.tempPath # NoPath
              => /\ lastEvent'.tempPath \notin files
                 /\ lastEvent'.tempPath \notin InFlightPaths
         /\ IsChunkEvent'
              => /\ files \ {lastEvent'.tempPath} = files' \ {lastEvent'.tempPath}
                 /\ \A f \in DOMAIN chunks' : chunks'[f].tempPath \in files'
       ]_vars

\* a chunk completes and its file is removed while the file of another
\* chunk, in flight on another connection, stays
C22_Witness ==
  /\ lastEvent.kind = "settled"
  /\ lastEvent.unlink = "ok"
  /\ lastEvent.tempPath \notin files
  /\ \E g \in DOMAIN chunks :
        /\ chunks[g].client # lastEvent.client
        /\ chunks[g].tempPath[2] = lastEvent.tempPath[2]
        /\ chunks[g].tempPath \in files

\* the error messages among the types sent for a frame
C23_Errors(emitted) == {i \in DOMAIN emitted : emitted[i] = "error"}

(* C23 as stated: a binary frame in live mode causes at most one            *)
(* transcription call: a call is pending only for a frame already received, *)
(* a frame's call is made when the frame arrives and never again once it    *)
(* has settled, whether it returned or failed; and a failed call is         *)
(* reported with exactly one error message for its frame.                   *)
C23_NoRetryOneError ==
  /\ [](\A f \in DOMAIN chunks : f <= nFrames)
  /\ [][ /\ DOMAIN chunks' \ DOMAIN chunks \subseteq {nFrames + 1}
         /\ lastEvent'.kind = "settled"
              => DOMAIN chunks' = DOMAIN chunks \ {lastEvent'.frame}
         /\ lastEvent'.kind = "settled" /\ ~lastEvent'.response.ok
              => Cardinality(C23_Errors(lastEvent'.emitted)) = 1
       ]_vars

(* C23 as amended: the same, the one error message being sent when the      *)
(* connection is still open at the time the call fails; when it has closed  *)
(* by then, no message is sent for the frame.                               *)
C23_NoRetryOneErrorWhileOpen ==
  /\ [](\A f \in DOMAIN chunks : f <= nFrames)
  /\ [][ /\ DOMAIN chunks' \ DOMAIN chunks \subseteq {nFrames + 1}
         /\ lastEvent'.kind = "settled"
              => DOMAIN chunks' = DOMAIN chunks \ {lastEvent'.frame}
         /\ lastEvent'.kind = "settled" /\ ~lastEvent'.response.ok
              => Cardinality(C23_Errors(lastEvent'.emitted)) =
                   IF readyState[lastEvent'.client] = "OPEN" THEN 1 ELSE 0
       ]_vars

\* a call fails on an open connection: its frame leaves the pending calls
\* with one error sent
C23_Witness ==
  /\ lastEvent.kind = "settled"
  /\ ~lastEvent.response.ok
  /\ lastEvent.frame \notin DOMAIN chunks
  /\ lastEvent.emitted = << "processing", "error" >>
  /\ readyState[lastEvent.client] = "OPEN"

(* C24: a server message handled by the client appends one entry to the     *)
(* transcript list, holding the trimmed text, exactly when it is a          *)
(* transcript whose trimmed text is not empty, and leaves the entries       *)
(* already there in place and unaltered; a processing, silence, error or    *)
(* any other message leaves the list as it is; and outside message handling *)
(* the list changes only when startSession begins a new session.            *)
C24_TranscriptListIsAppendOnly ==
  [][ /\ lastMsg' # NoServerMsg
           => LET msg == lastMsg'
                  counts == /\ msg.parse = "object"
                            /\ msg.type = "transcript"
                            /\ msg.text.t = "string"
                            /\ Trim(msg.text.s) # << >>
              IN  IF counts
                    THEN /\ Len(transcripts') = Len(transcripts) + 1
                         /\ SubSeq(transcripts', 1, Len(transcripts)) = transcripts
                         /\ transcripts'[Len(transcripts')].text = Trim(msg.text.s)
                    ELSE transcripts' = transcripts
      /\ lastMsg' = NoServerMsg /\ transcripts' # transcripts
           => status' = "connecting" /\ transcripts' = << >>
    ]_vars

\* a second, different transcript has arrived in an active session
C24_Witness ==
  /\ isActive
  /\ lastMsg.type = "transcript"
  /\ Len(transcripts) = 2
  /\ transcripts[1] # transcripts[2]
  /\ transcripts[2].text = Trim(lastMsg.text.s)
  /\ sessionRef = transcripts

(* C25: the store never holds two users with the same username, whatever    *)
(* the interleaving of signup requests.  Fails on the code: the route looks *)
(* the username up, then awaits bcrypt, then calls createUser without a     *)
(* second lookup, so two requests for one username that both pass the       *)
(* lookup before either create are both answered 201 and both stored.       *)
C25_UsernamesStayUnique ==
  \A i, j \in DOMAIN dbUsers :
    dbUsers[i].username = dbUsers[j].username => i = j

\* the last step handled DELETE /api/sessions/:id
Deleted == lastStore'.op = "delete"

Queries == {<< >>, TextLower, <<72>>}

\* every stored session with this id belongs to userId, and there is one
OwnedBy(sessions, id, userId) ==
  /\ \E i \in DOMAIN sessions : sessions[i].id = id
  /\ \A i \in DOMAIN sessions : sessions[i].id = id => sessions[i].user_id = userId

\* everything the three reads answer to userId
Reads(sessions, rows, userId) ==
  [list |-> getSessions(sessions, rows, userId),
   byId |-> [id \in 0..MaxSaves |-> getSessionById(sessions, rows, id, userId)],
   search |-> [q \in Queries |-> searchTranscripts(sessions, rows, q, userId)]]

\* a session object a read answered holds nothing but userId's own data
OwnSession(s, userId) ==
  /\ s.user_id = userId
  /\ OwnedBy(dbSessions, s.id, userId)
  /\ \A k \in DOMAIN s.entries : s.entries[k].session_id = s.id

ReadsOnlyOwn(userId) ==
  LET r == Reads(dbSessions, dbEntries, userId)
  IN /\ \A i \in DOMAIN r.list : OwnSession(r.list[i], userId)
     /\ \A id \in 0..MaxSaves :
          r.byId[id] # NoSession => r.byId[id].id = id /\ OwnSession(r.byId[id], userId)
     /\ \A q \in Queries : \A i \in DOMAIN r.search[q] :
          OwnedBy(dbSessions, r.search[q][i].session_id, userId)

\* the last step saved or deleted a session with the token of another user
ByAnother(userId) ==
  lastStore'.op \in {"save", "delete"} /\ lastStore'.user # userId

(* C27: getSessions(u), getSessionById(id, u) and searchTranscripts(q, u)   *)
(* answer only sessions owned by u and entries of sessions owned by u, and  *)
(* their answers are the same before and after another user saves or        *)
(* deletes a session.                                                       *)
C27_ReadsAreIsolatedPerUser ==
  /\ [](\A u \in UserIds : ReadsOnlyOwn(u))
  /\ [][\A u \in UserIds :
          ByAnother(u) =>
            Reads(dbSessions', dbEntries', u) = Reads(dbSessions, dbEntries, u)]_vars

\* two users own a session with entries each and the last request saved the
\* second one, so each read of the first user has something to leak
C27_Witness ==
  /\ lastStore.op = "save" /\ lastStore.result
  /\ \E u \in UserIds \ {lastStore.user} :
       /\ getSessions(dbSessions, dbEntries, u) # << >>
       /\ getSessions(dbSessions, dbEntries, u)[1].entries # << >>
       /\ searchTranscripts(dbSessions, dbEntries, << >>, u) # << >>
       /\ Len(searchTranscripts(dbSessions, dbEntries, << >>, u)) < Len(dbEntries)

(* C28: every stored entry refers to a stored session, and every stored     *)
(* session has at least one entry.  Fails on the code: saveSession pushes   *)
(* the session row before it walks session.entries, so a body whose entries *)
(* pass the length test but cannot be walked (an array holding null, an     *)
(* object with a length) is answered 500 with the session row stored and no *)
(* entry for it.                                                            *)
C28_NoOrphansNoEmptySessions ==
  /\ \A k \in DOMAIN dbEntries :
       \E i \in DOMAIN dbSessions : dbSessions[i].id = dbEntries[k].session_id
  /\ \A i \in DOMAIN dbSessions :
       \E k \in DOMAIN dbEntries : dbEntries[k].session_id = dbSessions[i].id

\* the last step handled a chunk_meta or audio_end text frame on a
\* connection that had no Session Buffer
IdleControl ==
  /\ lastEvent'.kind = "text"
  /\ nEvents' = nEvents + 1
  /\ lastEvent'.msg.parse = "object"
  /\ lastEvent'.msg.type \in {"chunk_meta", "audio_end"}
  /\ lastEvent'.client \notin DOMAIN audioBuffers

(* C29: a chunk_meta or audio_end frame handled while the connection has no *)
(* Session Buffer creates no buffer, sends no message and leaves the        *)
(* connection without a buffer.                                             *)
C29_IdleControlFramesAreNoOps ==
  [][IdleControl =>
       /\ audioBuffers' = audioBuffers
       /\ lastEvent'.client \notin DOMAIN audioBuffers'
       /\ outbox' = << >>]_vars

\* a chunk_meta frame was handled on an open connection without a buffer
C29_Witness ==
  /\ lastEvent.kind = "text"
  /\ lastEvent.msg.type = "chunk_meta"
  /\ lastEvent.before = NoBuffer
  /\ lastEvent.client \notin DOMAIN audioBuffers
  /\ outbox = << >>

\* the last step settled the transcription call of a pending chunk
Settling ==
  /\ lastEvent'.kind = "settled"
  /\ lastEvent'.frame \in DOMAIN chunks
  /\ lastEvent'.frame \notin DOMAIN chunks'

(* C30: the mime type and the temp file name of a chunk are the ones        *)
(* resolved from the connection's buffer when its binary frame arrived; no  *)
(* step taken while its transcription call is pending (an audio_start with  *)
(* another mime type, an audio_end) changes them, and the file released     *)
(* when the chunk completes is the one named at arrival.                    *)
C30_MimeTypeFixedAtArrival ==
  [][/\ \A f \in DOMAIN chunks' \ DOMAIN chunks :
          /\ chunks'[f].mimeType = resolveMimeType(audioBuffers, chunks'[f].client)
          /\ chunks'[f].tempPath = tempPathOf(f, guessExtension(chunks'[f].mimeType))
     /\ \A f \in DOMAIN chunks' \cap DOMAIN chunks :
          /\ chunks'[f].mimeType = chunks[f].mimeType
          /\ chunks'[f].tempPath = chunks[f].tempPath
     /\ Settling =>
          LET f == lastEvent'.frame
          IN /\ lastEvent'.tempPath = chunks[f].tempPath
             /\ chunks[f].tempPath = tempPathOf(f, guessExtension(chunks[f].mimeType))
             /\ files \ files' \subseteq {chunks[f].tempPath}
             /\ lastEvent'.unlink = "ok" => chunks[f].tempPath \notin files']_vars

\* a chunk that arrived as audio/webm completed after an audio_start had
\* switched its connection to audio/ogg, and its .webm file was removed
C30_Witness ==
  /\ lastEvent.kind = "settled"
  /\ lastEvent.mimeType = Str(AudioWebm)
  /\ resolveMimeType(audioBuffers, lastEvent.client) = Str(AudioOgg)
  /\ lastEvent.tempPath = tempPathOf(lastEvent.frame, guessExtension(Str(AudioWebm)))
  /\ guessExtension(Str(AudioOgg)) # guessExtension(Str(AudioWebm))
  /\ lastEvent.unlink = "ok"
  /\ lastEvent.tempPath \notin files

====
